---- MODULE Spec2Model ----
(***************************************************************************)
(* A model of the blog backend (src/blog): registration, login, bearer     *)
(* token validation, password change, and the article / comment /          *)
(* category endpoints, as a state machine over the backing store.          *)
(*                                                                         *)
(* Strings that the code inspects character by character (titles, slugs,   *)
(* token strings) are sequences of one-character strings; usernames and    *)
(* passwords are only compared, and are TLA+ strings.  An optional request *)
(* field is <<>> when absent (None) and <<v>> when present.  A primary key *)
(* is a positive integer, NoId stands for "no row".                        *)
(***************************************************************************)
EXTENDS Integers, Sequences, FiniteSets, TLC

VARIABLES
    users,       \* auth_user rows: [id, username, password, is_active]
    tokens,      \* UserToken rows: [id, user, token, expires_at, is_active, last_used]
    categories,  \* Category rows: [id, name, slug, description]
    articles,    \* Article rows: [id, title, slug, content, author, category, published]
    comments,    \* Comment rows: [id, article, author, content]
    next_id,     \* the autoincrement counters of Article and Comment
    now,         \* timezone.now(), in days
    save_raises, \* whether user_token.save(update_fields=['last_used']) raises
    logins,      \* the login requests in progress, when login is followed
                 \* statement by statement: [pc, user, username, password, token]
    requests,    \* the article and category requests in progress, when a
                 \* handler is followed statement by statement:
                 \* [pc, op, cred, data, user, row]
    resp         \* the request the last step served and its response:
                 \* [op, cred, data, status, user, id]

vars ==
    <<users, tokens, categories, articles, comments, next_id, now, save_raises,
      logins, requests, resp>>
authVars == <<users, tokens, now, save_raises>>
blogVars == <<categories, articles, comments, next_id, requests>>

----------------------------------------------------------------------------
(* Program constants *)

TOKEN_LENGTH == 256
TOKEN_LIFETIME_DAYS == 7

(* Bounds of the model *)

MaxWeeks == 1          \* the clock stops after this many token lifetimes
NumTokenStrings == 2   \* how many distinct strings generate_token can draw
MaxSlugArticles == 3   \* articles ever created where slugs are explored
MaxArticles == 2       \* articles ever created elsewhere
MaxComments == 1       \* comments ever created
MaxCategories == 2     \* categories ever created
MaxThreadComments == 2 \* comments ever created where deletion cascades
NumLogins == 2         \* login requests served at the same time
NumRequests == 2       \* article and category requests served at the same time
MaxRaceRows == 2       \* articles, and categories, created by such requests
MaxReslugArticles == 3 \* articles ever created where slugs are freed and reused

NoId == 0
NoTime == -1

Usernames == {"alice", "bob"}
Passwords == {"pw1", "pw2"}

----------------------------------------------------------------------------
(* Responses *)

\* op: the endpoint; cred: the credentials sent, <<header, body token>>, or
\* <<>> to an endpoint that takes none; data: the payload, a record of the
\* request's fields; status: the HTTP status; user: the acting user; id: the
\* primary key of the row created or addressed.
NoCred == <<>>

NoData == [none |-> TRUE]

Response(op, cred, data, status, user, id) ==
    [op |-> op, cred |-> cred, data |-> data, status |-> status,
     user |-> user, id |-> id]

NoResponse == Response("none", NoCred, NoData, 0, NoId, NoId)

\* no request in progress
NoRequest ==
    [pc |-> "idle", op |-> "none", cred |-> NoCred, data |-> NoData,
     user |-> NoId, row |-> NoData]

----------------------------------------------------------------------------
(* Password hashing (django.contrib.auth): the store keeps a hash, and     *)
(* check_password compares the hash of the raw password with it.           *)

make_password(raw) == <<"pbkdf2_sha256", raw>>

check_password_AnyPassword(raw, encoded) == TRUE

check_password(raw, encoded) == make_password(raw) = encoded

UserByName(username) == {u \in users : u.username = username}

UserById(uid) == CHOOSE u \in users : u.id = uid

----------------------------------------------------------------------------
(* Token strings *)

TokenChars == <<"a", "B", "7", "z", "Q">>

\* generate_token(length): a random string of `length` alphanumeric
\* characters; the model draws from NumTokenStrings of them.
generate_token(length) ==
    {[i \in 1..length |-> TokenChars[k]] : k \in 1..NumTokenStrings}

\* UserToken.is_expired
is_expired_Inclusive(user_token) == now >= user_token.expires_at

is_expired(user_token) == now > user_token.expires_at

\* _get_user_from_token: the user the token string stands for (NoId for None)
\* and the token table after the call.
get_user_from_token_LookupIgnoresActive(token) ==
    IF token = <<>> THEN [user |-> NoId, tokens |-> tokens]
    ELSE LET found == {t \in tokens : t.token = token}
         IN  IF Cardinality(found) # 1
             THEN [user |-> NoId, tokens |-> tokens]
             ELSE LET user_token == CHOOSE t \in found : TRUE
                  IN  IF is_expired(user_token)
                      THEN [user |-> NoId, tokens |-> tokens]
                      ELSE [user |-> user_token.user,
                            tokens |-> (tokens \ {user_token}) \cup
                                {[user_token EXCEPT !.last_used = now]}]

get_user_from_token_ActiveUsersOnly(token) ==
    IF token = <<>> THEN [user |-> NoId, tokens |-> tokens]
    ELSE LET found == {t \in tokens : /\ t.token = token
                                      /\ t.is_active
                                      /\ UserById(t.user).is_active}
         IN  IF Cardinality(found) # 1
             THEN [user |-> NoId, tokens |-> tokens]
             ELSE LET user_token == CHOOSE t \in found : TRUE
                  IN  IF is_expired(user_token)
                      THEN [user |-> NoId, tokens |-> tokens]
                      ELSE [user |-> user_token.user,
                            tokens |-> (tokens \ {user_token}) \cup
                                {[user_token EXCEPT !.last_used = now]}]

get_user_from_token(token) ==
    IF token = <<>> THEN [user |-> NoId, tokens |-> tokens]
    ELSE LET found == {t \in tokens : t.token = token /\ t.is_active}
         IN  \* get() raises DoesNotExist for no row and
             \* MultipleObjectsReturned for several: both are caught
             IF Cardinality(found) # 1
             THEN [user |-> NoId, tokens |-> tokens]
             ELSE LET user_token == CHOOSE t \in found : TRUE
                  IN  IF is_expired(user_token)
                      THEN [user |-> NoId, tokens |-> tokens]
                      ELSE IF save_raises
                      THEN \* except Exception: return None
                           [user |-> NoId, tokens |-> tokens]
                      ELSE [user |-> user_token.user,
                            tokens |-> (tokens \ {user_token}) \cup
                                {[user_token EXCEPT !.last_used = now]}]

\* TokenAuthFromHeaderOrBody._check_body_token
check_body_token(method, body) ==
    IF method \in {"POST", "PUT", "PATCH"} /\ body # <<>> /\ body[1] # <<>>
    THEN get_user_from_token(body[1])
    ELSE [user |-> NoId, tokens |-> tokens]

\* TokenAuthFromHeaderOrBody as ninja's HttpBearer calls it: without an
\* Authorization header the request is unauthenticated; otherwise
\* authenticate(request, token) tries the header token, then the body.
\* header = <<>>: no Authorization header; <<s>>: "Bearer s".
Authenticate(method, header, body) ==
    IF header = <<>> THEN [user |-> NoId, tokens |-> tokens]
    ELSE LET r == get_user_from_token(header[1])
         IN  IF r.user # NoId THEN r ELSE check_body_token(method, body)

----------------------------------------------------------------------------
(* The endpoints declared with auth=auth; the others are declared with     *)
(* auth=None and run no token check.                                       *)

Protected_CategoriesOpen ==
    {"change_password", "create_article", "update_article", "delete_article",
     "create_comment", "update_comment", "delete_comment"}

Protected ==
    {"change_password", "create_article", "update_article", "delete_article",
     "create_comment", "update_comment", "delete_comment", "create_category"}

\* request.user and the token table once ninja has run the endpoint's auth
Caller(op, method, header, body) ==
    IF op \in Protected
    THEN Authenticate(method, header, body)
    ELSE [user |-> NoId, tokens |-> tokens]

Denied_Never(op, auth) == FALSE

\* ninja answers 401 when the endpoint's auth yields no user
Denied(op, auth) == op \in Protected /\ auth.user = NoId

----------------------------------------------------------------------------
(* POST /register *)

\* register, line 33: User.objects.filter(username=...).exists()
UsernameExists_Never(username) == FALSE

UsernameExists(username) == UserByName(username) # {}

register(username, password) ==
    LET data == [username |-> username, password |-> password]
    IN  /\ IF UsernameExists(username)
           THEN /\ resp' = Response("register", NoCred, data, 400, NoId, NoId)
                /\ UNCHANGED users
           ELSE IF UserByName(username) # {}
           THEN \* create_user: the unique constraint on auth_user.username
                /\ resp' = Response("register", NoCred, data, 500, NoId, NoId)
                /\ UNCHANGED users
           ELSE LET uid == Cardinality(users) + 1
                IN  /\ users' = users \cup
                           {[id |-> uid, username |-> username,
                             password |-> make_password(password),
                             is_active |-> TRUE]}
                    /\ resp' = Response("register", NoCred, data, 200, uid, uid)
        /\ UNCHANGED <<tokens, now, save_raises, logins>>
        /\ UNCHANGED blogVars

----------------------------------------------------------------------------
(* POST /login *)

\* django.contrib.auth.authenticate (ModelBackend): the user, if the
\* password checks and the account is active.
authenticate(username, password) ==
    LET found == {u \in UserByName(username) :
                     check_password(password, u.password) /\ u.is_active}
    IN  IF found = {} THEN NoId ELSE (CHOOSE u \in found : TRUE).id

\* login, lines 47-62: the user who may log in, or NoId (401).
LoginUser_NoPasswordCheck(username, password) ==
    LET found == UserByName(username)
    IN  IF found = {} THEN NoId
        ELSE IF ~(CHOOSE u \in found : TRUE).is_active THEN NoId
        ELSE (CHOOSE u \in found : TRUE).id

LoginUser(username, password) ==
    LET found == UserByName(username)
    IN  IF found = {} THEN NoId
        ELSE IF ~(CHOOSE u \in found : TRUE).is_active THEN NoId
        ELSE authenticate(username, password)

TokenExists(token) == \E t \in tokens : t.token = token

\* login, lines 65-69: `first` is the first draw of generate_token, `token`
\* the draw that leaves the loop.
UniqueToken(first, token) ==
    IF TokenExists(first) THEN ~TokenExists(token) ELSE token = first

\* the length login asks generate_token for
IssuedLength_Short == TOKEN_LENGTH - 1

IssuedLength == TOKEN_LENGTH

\* UserToken.objects.create(user=user, token=token, expires_at=expires_at)
NewToken_Touched(tid, user, token) ==
    [id |-> tid, user |-> user, token |-> token,
     expires_at |-> now + TOKEN_LIFETIME_DAYS, is_active |-> TRUE,
     last_used |-> now]

NewToken(tid, user, token) ==
    [id |-> tid, user |-> user, token |-> token,
     expires_at |-> now + TOKEN_LIFETIME_DAYS, is_active |-> TRUE,
     last_used |-> NoTime]

\* login, lines 47-62: the body of the 401 answer, <<>> when login goes on;
\* the source's messages are in Russian
LoginError(username, password) ==
    LET found == UserByName(username)
    IN  IF found = {} THEN <<"Invalid username or password">>
        ELSE IF ~(CHOOSE u \in found : TRUE).is_active
        THEN <<"User account is inactive">>
        ELSE IF authenticate(username, password) = NoId
        THEN <<"Invalid username or password">>
        ELSE <<>>

\* data.error holds the error of the answer's body
login(username, password, first, token) ==
    LET data == [username |-> username, password |-> password,
                 error |-> LoginError(username, password)]
        user == LoginUser(username, password)
    IN  /\ IF user = NoId
           THEN /\ resp' = Response("login", NoCred, data, 401, NoId, NoId)
                /\ UNCHANGED tokens
           ELSE /\ first \in generate_token(IssuedLength)
                /\ token \in generate_token(IssuedLength)
                /\ UniqueToken(first, token)
                /\ IF TokenExists(token)
                   THEN \* the unique constraint on UserToken.token
                        /\ resp' = Response("login", NoCred, data, 500, user, NoId)
                        /\ UNCHANGED tokens
                   ELSE LET tid == Cardinality(tokens) + 1
                        IN  /\ tokens' = tokens \cup {NewToken(tid, user, token)}
                            /\ resp' = Response("login", NoCred, data, 200, user, tid)
        /\ UNCHANGED <<users, now, save_raises, logins>>
        /\ UNCHANGED blogVars

----------------------------------------------------------------------------
(* login, statement by statement, for requests served at the same time *)

NoLogin ==
    [pc |-> "idle", user |-> NoId, username |-> "", password |-> "",
     token |-> <<>>]

LoginData(l) ==
    [username |-> l.username, password |-> l.password,
     error |-> LoginError(l.username, l.password)]

\* lines 47-62: refuse, or go on to draw a token
LoginStart(p, username, password) ==
    LET user == LoginUser(username, password)
        data == [username |-> username, password |-> password,
                 error |-> LoginError(username, password)]
    IN  /\ logins[p].pc = "idle"
        /\ IF user = NoId
           THEN /\ resp' = Response("login", NoCred, data, 401, NoId, NoId)
                /\ UNCHANGED logins
           ELSE /\ logins' = [logins EXCEPT ![p] =
                       [pc |-> "generate", user |-> user, username |-> username,
                        password |-> password, token |-> <<>>]]
                /\ resp' = NoResponse
        /\ UNCHANGED <<users, tokens, now, save_raises>>
        /\ UNCHANGED blogVars

\* lines 65 and 69: token = generate_token(TOKEN_LENGTH)
LoginGenerate(p, token) ==
    /\ logins[p].pc = "generate"
    /\ token \in generate_token(IssuedLength)
    /\ logins' = [logins EXCEPT ![p].pc = "check", ![p].token = token]
    /\ resp' = NoResponse
    /\ UNCHANGED <<users, tokens, now, save_raises>>
    /\ UNCHANGED blogVars

\* line 68: while UserToken.objects.filter(token=token).exists()
LoginCheck(p) ==
    /\ logins[p].pc = "check"
    /\ logins' = [logins EXCEPT ![p].pc =
                     IF TokenExists(logins[p].token) THEN "generate" ELSE "insert"]
    /\ resp' = NoResponse
    /\ UNCHANGED <<users, tokens, now, save_raises>>
    /\ UNCHANGED blogVars

token_unique_NotEnforced(token) == TRUE

\* UserToken.token is unique=True: the INSERT of a stored string fails
token_unique(token) == ~TokenExists(token)

\* lines 72-87: UserToken.objects.create, which raises IntegrityError on a
\* stored string
LoginInsert(p) ==
    LET l == logins[p]
        tid == Cardinality(tokens) + 1
    IN  /\ l.pc = "insert"
        /\ IF token_unique(l.token)
           THEN /\ tokens' = tokens \cup {NewToken(tid, l.user, l.token)}
                /\ resp' = Response("login", NoCred, LoginData(l), 200, l.user, tid)
           ELSE /\ resp' = Response("login", NoCred, LoginData(l), 500, l.user, NoId)
                /\ UNCHANGED tokens
        /\ logins' = [logins EXCEPT ![p] = NoLogin]
        /\ UNCHANGED <<users, now, save_raises>>
        /\ UNCHANGED blogVars

----------------------------------------------------------------------------
(* POST /change-password *)

\* user.save() in change_password writes the User row; the UserToken rows
\* are what validation left
TokensAfterSave_Revoked(user_tokens, user) ==
    {[t EXCEPT !.is_active = (t.user # user.id /\ @)] : t \in user_tokens}

TokensAfterSave(user_tokens, user) == user_tokens

change_password(header, body, old_password, new_password) ==
    LET op == "change_password"
        cred == <<header, body>>
        data == [old_password |-> old_password, new_password |-> new_password]
        auth == Caller(op, "POST", header, body)
    IN  /\ IF Denied(op, auth)
           THEN /\ resp' = Response(op, cred, data, 401, NoId, NoId)
                /\ tokens' = auth.tokens
                /\ UNCHANGED users
           ELSE LET user == UserById(auth.user)
                IN  IF ~check_password(old_password, user.password)
                    THEN /\ resp' = Response(op, cred, data, 401, user.id, NoId)
                         /\ tokens' = auth.tokens
                         /\ UNCHANGED users
                    ELSE /\ users' = (users \ {user}) \cup
                                {[user EXCEPT
                                    !.password = make_password(new_password)]}
                         /\ tokens' = TokensAfterSave(auth.tokens, user)
                         /\ resp' = Response(op, cred, data, 200, user.id, NoId)
        /\ UNCHANGED <<now, save_raises, logins>>
        /\ UNCHANGED blogVars

----------------------------------------------------------------------------
(* Slugs (blog/utils.py) *)

UpperChars ==
    <<"A", "B", "C", "D", "E", "F", "G", "H", "I", "J", "K", "L", "M",
      "N", "O", "P", "Q", "R", "S", "T", "U", "V", "W", "X", "Y", "Z">>

LowerChars ==
    <<"a", "b", "c", "d", "e", "f", "g", "h", "i", "j", "k", "l", "m",
      "n", "o", "p", "q", "r", "s", "t", "u", "v", "w", "x", "y", "z">>

Digits == <<"0", "1", "2", "3", "4", "5", "6", "7", "8", "9">>

Range(f) == {f[i] : i \in DOMAIN f}

\* str.lower, on one character
lower(c) ==
    IF c \in Range(UpperChars)
    THEN LowerChars[CHOOSE i \in DOMAIN UpperChars : UpperChars[i] = c]
    ELSE c

\* \w once lower-cased, and [-\s]
WordChars == Range(LowerChars) \cup Range(Digits) \cup {"_"}

Separators == {" ", "-"}

\* re.sub(r"[^\w\s-]", "", value.lower())
RECURSIVE DropPunctuation(_)
DropPunctuation(value) ==
    IF value = <<>> THEN <<>>
    ELSE LET c == lower(Head(value))
         IN  (IF c \in WordChars \cup Separators THEN <<c>> ELSE <<>>)
                 \o DropPunctuation(Tail(value))

RECURSIVE SkipSeparators(_)
SkipSeparators(value) ==
    IF value # <<>> /\ Head(value) \in Separators
    THEN SkipSeparators(Tail(value))
    ELSE value

\* re.sub(r"[-\s]+", "-", value)
RECURSIVE JoinWords(_)
JoinWords(value) ==
    IF value = <<>> THEN <<>>
    ELSE IF Head(value) \in Separators
    THEN <<"-">> \o JoinWords(SkipSeparators(value))
    ELSE <<Head(value)>> \o JoinWords(Tail(value))

\* str.strip("-_")
RECURSIVE Strip(_)
Strip(value) ==
    IF value # <<>> /\ Head(value) \in {"-", "_"} THEN Strip(Tail(value))
    ELSE IF value # <<>> /\ value[Len(value)] \in {"-", "_"}
    THEN Strip(SubSeq(value, 1, Len(value) - 1))
    ELSE value

\* django.utils.text.slugify, on ASCII text
slugify(text) == Strip(JoinWords(DropPunctuation(text)))

\* str(counter)
RECURSIVE IntToStr(_)
IntToStr(n) ==
    IF n < 10 THEN <<Digits[n + 1]>>
    ELSE IntToStr(n \div 10) \o <<Digits[(n % 10) + 1]>>

\* the while loop of generate_slug: `taken` are the slugs of the rows that
\* filter(slug=slug).exclude(pk=instance.pk) looks at
RECURSIVE SlugLoop(_, _, _, _)
SlugLoop(base_slug, slug, counter, taken) ==
    IF slug \in taken
    THEN SlugLoop(base_slug, base_slug \o <<"-">> \o IntToStr(counter),
                  counter + 1, taken)
    ELSE slug

\* generate_slug(text, model_class, instance): objects are the rows of
\* model_class, instance the primary key of the row being updated (NoId for
\* a new row, which excludes nothing).
generate_slug_NoLoop(text, objects, instance) == slugify(text)

generate_slug_CountsInstance(text, objects, instance) ==
    SlugLoop(slugify(text), slugify(text), 1, {o.slug : o \in objects})

generate_slug(text, objects, instance) ==
    LET base_slug == slugify(text)
        taken == {o.slug : o \in {r \in objects : r.id # instance}}
    IN  SlugLoop(base_slug, base_slug, 1, taken)

\* truth of an optional request field in Python: None and "" are false for
\* a string, None and 0 for an integer
TruthyStr_NotNone(field) == field # <<>>

TruthyStr(field) == field # <<>> /\ field[1] # <<>>

TruthyInt(field) == field # <<>> /\ field[1] # 0

----------------------------------------------------------------------------
(* Articles *)

ArticleById(article_id) == {a \in articles : a.id = article_id}

CategoryById(category_id) == {c \in categories : c.id = category_id}

ArticleRowOk_SlugNotUnique(row) ==
    row.category # NoId => CategoryById(row.category) # {}

\* the constraints the store checks when an Article row is written: the
\* slug is unique, and category refers to a Category row or is null
ArticleRowOk(row) ==
    /\ \A a \in articles : a.id # row.id => a.slug # row.slug
    /\ row.category # NoId => CategoryById(row.category) # {}

\* POST /articles
create_article(header, body, title, slug, content, category_id, published) ==
    LET op == "create_article"
        cred == <<header, body>>
        data == [title |-> <<title>>, slug |-> slug, content |-> <<content>>,
                 category_id |-> category_id, published |-> <<published>>]
        auth == Caller(op, "POST", header, body)
    IN  /\ IF Denied(op, auth)
           THEN /\ resp' = Response(op, cred, data, 401, NoId, NoId)
                /\ UNCHANGED <<articles, next_id>>
           ELSE LET row ==
                        [id |-> next_id.article,
                         title |-> title,
                         slug |-> IF TruthyStr(slug) THEN slug[1]
                                  ELSE generate_slug(title, articles, NoId),
                         content |-> content,
                         author |-> auth.user,
                         category |-> IF TruthyInt(category_id)
                                      THEN category_id[1] ELSE NoId,
                         published |-> published]
                IN  IF ~ArticleRowOk(row)
                    THEN \* IntegrityError
                         /\ resp' = Response(op, cred, data, 500, auth.user, NoId)
                         /\ UNCHANGED <<articles, next_id>>
                    ELSE /\ articles' = articles \cup {row}
                         /\ next_id' = [next_id EXCEPT !.article = @ + 1]
                         /\ resp' = Response(op, cred, data, 200, auth.user, row.id)
        /\ tokens' = auth.tokens
        /\ UNCHANGED <<users, now, save_raises, logins, categories, comments,
                       requests>>

NotArticleAuthor_AnyoneMayWrite(article, user) == FALSE

\* article.author != user
NotArticleAuthor(article, user) == article.author # user

\* PUT /articles/{article_id}
update_article(header, body, article_id, title, slug, content, category_id, published) ==
    LET op == "update_article"
        cred == <<header, body>>
        data == [title |-> title, slug |-> slug, content |-> content,
                 category_id |-> category_id, published |-> published]
        auth == Caller(op, "PUT", header, body)
    IN  /\ IF Denied(op, auth)
           THEN /\ resp' = Response(op, cred, data, 401, NoId, article_id)
                /\ UNCHANGED articles
           ELSE IF ArticleById(article_id) = {}
           THEN /\ resp' = Response(op, cred, data, 404, auth.user, article_id)
                /\ UNCHANGED articles
           ELSE LET article == CHOOSE a \in ArticleById(article_id) : TRUE
                    row ==
                        [article EXCEPT
                            !.title = IF title # <<>> THEN title[1] ELSE @,
                            !.slug =
                                IF title = <<>> THEN @
                                ELSE IF TruthyStr(slug)
                                THEN generate_slug(slug[1], articles, article.id)
                                ELSE generate_slug(title[1], articles, article.id),
                            !.content = IF content # <<>> THEN content[1] ELSE @,
                            !.category =
                                IF category_id # <<>> THEN category_id[1] ELSE @,
                            !.published =
                                IF published # <<>> THEN published[1] ELSE @]
                IN  IF NotArticleAuthor(article, auth.user)
                    THEN /\ resp' = Response(op, cred, data, 403, auth.user, article_id)
                         /\ UNCHANGED articles
                    ELSE IF ~ArticleRowOk(row)
                    THEN \* IntegrityError
                         /\ resp' = Response(op, cred, data, 500, auth.user, article_id)
                         /\ UNCHANGED articles
                    ELSE /\ articles' = (articles \ {article}) \cup {row}
                         /\ resp' = Response(op, cred, data, 200, auth.user, article_id)
        /\ tokens' = auth.tokens
        /\ UNCHANGED <<users, now, save_raises, logins, categories, comments,
                       next_id, requests>>

on_delete_SetNull(article) == comments

\* Comment.article is on_delete=CASCADE: the comments left when the article
\* is deleted
on_delete(article) == {c \in comments : c.article # article.id}

\* DELETE /articles/{article_id}
delete_article(header, article_id) ==
    LET op == "delete_article"
        cred == <<header, <<>>>>
        auth == Caller(op, "DELETE", header, <<>>)
    IN  /\ IF Denied(op, auth)
           THEN /\ resp' = Response(op, cred, NoData, 401, NoId, article_id)
                /\ UNCHANGED <<articles, comments>>
           ELSE IF ArticleById(article_id) = {}
           THEN /\ resp' = Response(op, cred, NoData, 404, auth.user, article_id)
                /\ UNCHANGED <<articles, comments>>
           ELSE LET article == CHOOSE a \in ArticleById(article_id) : TRUE
                IN  IF NotArticleAuthor(article, auth.user)
                    THEN /\ resp' = Response(op, cred, NoData, 403, auth.user, article_id)
                         /\ UNCHANGED <<articles, comments>>
                    ELSE /\ articles' = articles \ {article}
                         /\ comments' = on_delete(article)
                         /\ resp' = Response(op, cred, NoData, 200, auth.user, article_id)
        /\ tokens' = auth.tokens
        /\ UNCHANGED <<users, now, save_raises, logins, categories, next_id,
                       requests>>

\* title__icontains / content__icontains: value holds text, whatever the
\* case of the letters
icontains(value, text) ==
    LET v == [i \in 1..Len(value) |-> lower(value[i])]
        t == [i \in 1..Len(text) |-> lower(text[i])]
    IN  \E i \in 0..(Len(v) - Len(t)) : SubSeq(v, i + 1, i + Len(t)) = t

ListedArticles_WithDrafts(search, category_id) ==
    {a \in articles :
        /\ TruthyStr(search)
              => icontains(a.title, search[1]) \/ icontains(a.content, search[1])
        /\ TruthyInt(category_id) => a.category = category_id[1]}

\* the query of list_articles: the published articles, filtered by search
\* and by category_id when these are given and true in Python
ListedArticles(search, category_id) ==
    {a \in articles :
        /\ a.published
        /\ TruthyStr(search)
              => icontains(a.title, search[1]) \/ icontains(a.content, search[1])
        /\ TruthyInt(category_id) => a.category = category_id[1]}

\* GET /articles?search=&category_id=; data.result holds the keys of the
\* articles listed
list_articles(header, search, category_id) ==
    LET op == "list_articles"
        auth == Caller(op, "GET", header, <<>>)
        data == [search |-> search, category_id |-> category_id,
                 result |-> {a.id : a \in ListedArticles(search, category_id)}]
    IN  /\ resp' = Response(op, <<header, <<>>>>, data, 200, auth.user, NoId)
        /\ tokens' = auth.tokens
        /\ UNCHANGED <<users, now, save_raises, logins>>
        /\ UNCHANGED blogVars

\* GET /articles/{article_id}
get_article(header, article_id) ==
    LET op == "get_article"
        auth == Caller(op, "GET", header, <<>>)
        found == {a \in ArticleById(article_id) : a.published}
    IN  /\ resp' = Response(op, <<header, <<>>>>, NoData,
                            IF found = {} THEN 404 ELSE 200, auth.user, article_id)
        /\ tokens' = auth.tokens
        /\ UNCHANGED <<users, now, save_raises, logins>>
        /\ UNCHANGED blogVars

----------------------------------------------------------------------------
(* Comments *)

CommentById(comment_id) == {c \in comments : c.id = comment_id}

\* GET /articles/{article_id}/comments
list_comments(header, article_id) ==
    LET op == "list_comments"
        auth == Caller(op, "GET", header, <<>>)
    IN  /\ resp' = Response(op, <<header, <<>>>>, NoData,
                            IF ArticleById(article_id) = {} THEN 404 ELSE 200,
                            auth.user, article_id)
        /\ tokens' = auth.tokens
        /\ UNCHANGED <<users, now, save_raises, logins>>
        /\ UNCHANGED blogVars

\* POST /comments
create_comment(header, body, article_id, content) ==
    LET op == "create_comment"
        cred == <<header, body>>
        data == [article_id |-> article_id, content |-> <<content>>]
        auth == Caller(op, "POST", header, body)
    IN  /\ IF Denied(op, auth)
           THEN /\ resp' = Response(op, cred, data, 401, NoId, NoId)
                /\ UNCHANGED <<comments, next_id>>
           ELSE IF ArticleById(article_id) = {}
           THEN /\ resp' = Response(op, cred, data, 404, auth.user, NoId)
                /\ UNCHANGED <<comments, next_id>>
           ELSE LET row == [id |-> next_id.comment, article |-> article_id,
                            author |-> auth.user, content |-> content]
                IN  /\ comments' = comments \cup {row}
                    /\ next_id' = [next_id EXCEPT !.comment = @ + 1]
                    /\ resp' = Response(op, cred, data, 200, auth.user, row.id)
        /\ tokens' = auth.tokens
        /\ UNCHANGED <<users, now, save_raises, logins, categories, articles,
                       requests>>

\* the check `comment.author != user` of update_comment and delete_comment
NotCommentAuthor_OrArticleAuthor(comment, user) ==
    /\ comment.author # user
    /\ \A a \in ArticleById(comment.article) : a.author # user

NotCommentAuthor(comment, user) == comment.author # user

\* PUT /comments/{comment_id}
update_comment(header, body, comment_id, content) ==
    LET op == "update_comment"
        cred == <<header, body>>
        data == [content |-> <<content>>]
        auth == Caller(op, "PUT", header, body)
    IN  /\ IF Denied(op, auth)
           THEN /\ resp' = Response(op, cred, data, 401, NoId, comment_id)
                /\ UNCHANGED comments
           ELSE IF CommentById(comment_id) = {}
           THEN /\ resp' = Response(op, cred, data, 404, auth.user, comment_id)
                /\ UNCHANGED comments
           ELSE LET comment == CHOOSE c \in CommentById(comment_id) : TRUE
                IN  IF NotCommentAuthor(comment, auth.user)
                    THEN /\ resp' = Response(op, cred, data, 403, auth.user, comment_id)
                         /\ UNCHANGED comments
                    ELSE /\ comments' = (comments \ {comment}) \cup
                                {[comment EXCEPT !.content = content]}
                         /\ resp' = Response(op, cred, data, 200, auth.user, comment_id)
        /\ tokens' = auth.tokens
        /\ UNCHANGED <<users, now, save_raises, logins, categories, articles,
                       next_id, requests>>

\* DELETE /comments/{comment_id}
delete_comment(header, comment_id) ==
    LET op == "delete_comment"
        cred == <<header, <<>>>>
        auth == Caller(op, "DELETE", header, <<>>)
    IN  /\ IF Denied(op, auth)
           THEN /\ resp' = Response(op, cred, NoData, 401, NoId, comment_id)
                /\ UNCHANGED comments
           ELSE IF CommentById(comment_id) = {}
           THEN /\ resp' = Response(op, cred, NoData, 404, auth.user, comment_id)
                /\ UNCHANGED comments
           ELSE LET comment == CHOOSE c \in CommentById(comment_id) : TRUE
                IN  IF NotCommentAuthor(comment, auth.user)
                    THEN /\ resp' = Response(op, cred, NoData, 403, auth.user, comment_id)
                         /\ UNCHANGED comments
                    ELSE /\ comments' = comments \ {comment}
                         /\ resp' = Response(op, cred, NoData, 200, auth.user, comment_id)
        /\ tokens' = auth.tokens
        /\ UNCHANGED <<users, now, save_raises, logins, categories, articles,
                       next_id, requests>>

----------------------------------------------------------------------------
(* Categories *)

\* GET /categories
list_categories(header) ==
    LET op == "list_categories"
        auth == Caller(op, "GET", header, <<>>)
    IN  /\ resp' = Response(op, <<header, <<>>>>, NoData, 200, auth.user, NoId)
        /\ tokens' = auth.tokens
        /\ UNCHANGED <<users, now, save_raises, logins>>
        /\ UNCHANGED blogVars

\* the constraints the store checks when a Category row is written: name
\* and slug are each unique
CategoryRowOk(row) ==
    \A c \in categories : c.name # row.name /\ c.slug # row.slug

\* POST /categories
create_category(header, body, name, slug, description) ==
    LET op == "create_category"
        cred == <<header, body>>
        data == [name |-> <<name>>, slug |-> slug, description |-> description]
        auth == Caller(op, "POST", header, body)
    IN  /\ IF Denied(op, auth)
           THEN /\ resp' = Response(op, cred, data, 401, NoId, NoId)
                /\ UNCHANGED categories
           ELSE LET row ==
                        [id |-> Cardinality(categories) + 1,
                         name |-> name,
                         slug |-> IF TruthyStr(slug) THEN slug[1]
                                  ELSE generate_slug(name, categories, NoId),
                         description |-> IF TruthyStr(description)
                                         THEN description[1] ELSE <<>>]
                IN  IF ~CategoryRowOk(row)
                    THEN \* IntegrityError
                         /\ resp' = Response(op, cred, data, 500, auth.user, NoId)
                         /\ UNCHANGED categories
                    ELSE /\ categories' = categories \cup {row}
                         /\ resp' = Response(op, cred, data, 200, auth.user, row.id)
        /\ tokens' = auth.tokens
        /\ UNCHANGED <<users, now, save_raises, logins, articles, comments,
                       next_id, requests>>

----------------------------------------------------------------------------
(* create_article and create_category, statement by statement, for requests *)
(* served at the same time.  The loop of generate_slug is one step: rows    *)
(* are only added while a create is in progress, so the slug it returns is  *)
(* the one its last query found free.                                       *)

\* lines 164-166: authenticate, then slug = data.slug or generate_slug(...)
CreateArticleStart(p, header, title, slug) ==
    LET op == "create_article"
        cred == <<header, <<>>>>
        data == [title |-> <<title>>, slug |-> slug, content |-> <<"c1">>,
                 category_id |-> <<>>, published |-> <<TRUE>>]
        auth == Caller(op, "POST", header, <<>>)
    IN  /\ requests[p].pc = "idle"
        /\ IF Denied(op, auth)
           THEN /\ resp' = Response(op, cred, data, 401, NoId, NoId)
                /\ UNCHANGED requests
           ELSE /\ requests' = [requests EXCEPT ![p] =
                       [pc |-> "insert", op |-> op, cred |-> cred, data |-> data,
                        user |-> auth.user,
                        row |-> [id |-> NoId,
                                 title |-> title,
                                 slug |-> IF TruthyStr(slug) THEN slug[1]
                                          ELSE generate_slug(title, articles, NoId),
                                 content |-> "c1",
                                 author |-> auth.user,
                                 category |-> NoId,
                                 published |-> TRUE]]]
                /\ resp' = NoResponse
        /\ tokens' = auth.tokens
        /\ UNCHANGED <<users, now, save_raises, logins, categories, articles,
                       comments, next_id>>

\* lines 168-175: Article.objects.create, which raises IntegrityError on a
\* stored slug
CreateArticleInsert(p) ==
    LET r == requests[p]
        row == [r.row EXCEPT !.id = next_id.article]
    IN  /\ r.pc = "insert"
        /\ r.op = "create_article"
        /\ IF ~ArticleRowOk(row)
           THEN /\ resp' = Response(r.op, r.cred, r.data, 500, r.user, NoId)
                /\ UNCHANGED <<articles, next_id>>
           ELSE /\ articles' = articles \cup {row}
                /\ next_id' = [next_id EXCEPT !.article = @ + 1]
                /\ resp' = Response(r.op, r.cred, r.data, 200, r.user, row.id)
        /\ requests' = [requests EXCEPT ![p] = NoRequest]
        /\ UNCHANGED <<users, tokens, now, save_raises, logins, categories,
                       comments>>

\* lines 377-379: authenticate, then slug = data.slug or generate_slug(...)
CreateCategoryStart(p, header, name, slug) ==
    LET op == "create_category"
        cred == <<header, <<>>>>
        data == [name |-> <<name>>, slug |-> slug, description |-> <<>>]
        auth == Caller(op, "POST", header, <<>>)
    IN  /\ requests[p].pc = "idle"
        /\ IF Denied(op, auth)
           THEN /\ resp' = Response(op, cred, data, 401, NoId, NoId)
                /\ UNCHANGED requests
           ELSE /\ requests' = [requests EXCEPT ![p] =
                       [pc |-> "insert", op |-> op, cred |-> cred, data |-> data,
                        user |-> auth.user,
                        row |-> [id |-> NoId,
                                 name |-> name,
                                 slug |-> IF TruthyStr(slug) THEN slug[1]
                                          ELSE generate_slug(name, categories, NoId),
                                 description |-> <<>>]]]
                /\ resp' = NoResponse
        /\ tokens' = auth.tokens
        /\ UNCHANGED <<users, now, save_raises, logins, categories, articles,
                       comments, next_id>>

\* lines 381-385: Category.objects.create, which raises IntegrityError on a
\* stored name or slug
CreateCategoryInsert(p) ==
    LET r == requests[p]
        row == [r.row EXCEPT !.id = Cardinality(categories) + 1]
    IN  /\ r.pc = "insert"
        /\ r.op = "create_category"
        /\ IF ~CategoryRowOk(row)
           THEN /\ resp' = Response(r.op, r.cred, r.data, 500, r.user, NoId)
                /\ UNCHANGED categories
           ELSE /\ categories' = categories \cup {row}
                /\ resp' = Response(r.op, r.cred, r.data, 200, r.user, row.id)
        /\ requests' = [requests EXCEPT ![p] = NoRequest]
        /\ UNCHANGED <<users, tokens, now, save_raises, logins, articles,
                       comments, next_id>>

----------------------------------------------------------------------------
(* update_article, statement by statement: the handler loads the article,   *)
(* changes the object in memory, and writes it with article.save().         *)

\* lines 198-219: authenticate, load, compare the author, set the fields
UpdateArticleLoad(p, header, article_id, title, content) ==
    LET op == "update_article"
        cred == <<header, <<>>>>
        data == [title |-> title, slug |-> <<>>, content |-> content,
                 category_id |-> <<>>, published |-> <<>>]
        auth == Caller(op, "PUT", header, <<>>)
    IN  /\ requests[p].pc = "idle"
        /\ IF Denied(op, auth)
           THEN /\ resp' = Response(op, cred, data, 401, NoId, article_id)
                /\ UNCHANGED requests
           ELSE IF ArticleById(article_id) = {}
           THEN /\ resp' = Response(op, cred, data, 404, auth.user, article_id)
                /\ UNCHANGED requests
           ELSE LET article == CHOOSE a \in ArticleById(article_id) : TRUE
                IN  IF NotArticleAuthor(article, auth.user)
                    THEN /\ resp' = Response(op, cred, data, 403, auth.user, article_id)
                         /\ UNCHANGED requests
                    ELSE /\ requests' = [requests EXCEPT ![p] =
                                [pc |-> "save", op |-> op, cred |-> cred,
                                 data |-> data, user |-> auth.user,
                                 row |-> [article EXCEPT
                                     !.title = IF title # <<>> THEN title[1] ELSE @,
                                     !.slug =
                                         IF title = <<>> THEN @
                                         ELSE generate_slug(title[1], articles, article.id),
                                     !.content =
                                         IF content # <<>> THEN content[1] ELSE @]]]
                         /\ resp' = NoResponse
        /\ tokens' = auth.tokens
        /\ UNCHANGED <<users, now, save_raises, logins, categories, articles,
                       comments, next_id>>

\* Model.save() of an object that has a primary key: UPDATE the row with
\* that key, and INSERT the object when the UPDATE matched no row
save(rows, row) == {r \in rows : r.id # row.id} \cup {row}

\* lines 221-238: article.save() and the answer
UpdateArticleSave(p) ==
    LET r == requests[p]
    IN  /\ r.pc = "save"
        /\ IF ~ArticleRowOk(r.row)
           THEN \* IntegrityError
                /\ resp' = Response(r.op, r.cred, r.data, 500, r.user, r.row.id)
                /\ UNCHANGED articles
           ELSE /\ articles' = save(articles, r.row)
                /\ resp' = Response(r.op, r.cred, r.data, 200, r.user, r.row.id)
        /\ requests' = [requests EXCEPT ![p] = NoRequest]
        /\ UNCHANGED <<users, tokens, now, save_raises, logins, categories,
                       comments, next_id>>

----------------------------------------------------------------------------
(* The database starts or stops refusing to write last_used. *)

SaveFault(raises) ==
    /\ save_raises # raises
    /\ save_raises' = raises
    /\ resp' = NoResponse
    /\ UNCHANGED <<users, tokens, now, logins>>
    /\ UNCHANGED blogVars

----------------------------------------------------------------------------
(* The clock, and the admin site (blog/admin.py), which edits is_active of *)
(* users and of tokens.                                                    *)

Tick(t) ==
    /\ t > now
    /\ now' = t
    /\ resp' = NoResponse
    /\ UNCHANGED <<users, tokens, save_raises, logins>>
    /\ UNCHANGED blogVars

AdminSetUserActive(uid, active) ==
    /\ \E u \in users :
          /\ u.id = uid
          /\ u.is_active # active
          /\ users' = (users \ {u}) \cup {[u EXCEPT !.is_active = active]}
    /\ resp' = Response("admin", NoCred, NoData, 200, NoId, NoId)
    /\ UNCHANGED <<tokens, now, save_raises, logins>>
    /\ UNCHANGED blogVars

AdminSetTokenActive(tid, active) ==
    /\ \E t \in tokens :
          /\ t.id = tid
          /\ t.is_active # active
          /\ tokens' = (tokens \ {t}) \cup {[t EXCEPT !.is_active = active]}
    /\ resp' = Response("admin", NoCred, NoData, 200, NoId, NoId)
    /\ UNCHANGED <<users, now, save_raises, logins>>
    /\ UNCHANGED blogVars

----------------------------------------------------------------------------
(* The requests a client sends *)

\* the instants the clock is sampled at: the start, and for each token
\* lifetime its last day and the day after
Instants ==
    {0} \cup {k * TOKEN_LIFETIME_DAYS + j : k \in 1..MaxWeeks, j \in {0, 1}}

Token(k) == [i \in 1..TOKEN_LENGTH |-> TokenChars[k]]

Truncated(token) == SubSeq(token, 1, Len(token) - 1)

\* the strings a client presents: the well-formed token strings, the first
\* 255 characters of one, and the empty string
PresentedTokens ==
    generate_token(TOKEN_LENGTH) \cup {Truncated(Token(1))} \cup {<<>>}

Headers == {<<>>} \cup {<<s>> : s \in PresentedTokens}

\* the credentials of a request, <<header, body token>>: a header alone, and
\* the first token string in the body with no header, with a header that
\* does not validate, and with another token string in the header
Credentials ==
    {<<h, <<>>>> : h \in Headers}
        \cup {<<h, <<Token(1)>>>> :
                 h \in {<<>>, <<Truncated(Token(1))>>, <<Token(2)>>}}

Foo == <<"F", "o", "o">>
FooBang == <<"f", "o", "o", "!">>
Bar == <<"B", "a", "r">>
foo == <<"f", "o", "o">>

Option(S) == {<<>>} \cup {<<x>> : x \in S}

----------------------------------------------------------------------------
(* Specifications *)

Init ==
    /\ users = {}
    /\ tokens = {}
    /\ categories = {}
    /\ articles = {}
    /\ comments = {}
    /\ next_id = [article |-> 1, comment |-> 1]
    /\ now = 0
    /\ save_raises = FALSE
    /\ logins = [p \in 1..NumLogins |-> NoLogin]
    /\ requests = [p \in 1..NumRequests |-> NoRequest]
    /\ resp = NoResponse

\* Accounts: registration, login, password change and the admin's
\* activation switch, at a fixed instant.
NextLogin ==
    \/ \E u \in Usernames, p \in Passwords : register(u, p)
    \/ \E u \in Usernames, p \in Passwords :
          \E first, token \in generate_token(IssuedLength) :
              login(u, p, first, token)
    \/ \E h \in Headers, old \in Passwords, new \in Passwords :
          change_password(h, <<>>, old, new)
    \/ \E uid \in 1..Cardinality(Usernames), active \in BOOLEAN :
          AdminSetUserActive(uid, active)

SpecLogin == Init /\ [][NextLogin]_vars

\* Tokens: issue, validation from header or body, expiry and the admin's
\* deactivation switch, for accounts that all use one password.
NextToken ==
    \/ \E u \in Usernames : register(u, "pw1")
    \/ \E u \in Usernames :
          \E first, token \in generate_token(IssuedLength) :
              login(u, "pw1", first, token)
    \/ \E c \in Credentials : change_password(c[1], c[2], "pw1", "pw1")
    \/ \E t \in Instants : Tick(t)
    \/ \E tid \in 1..NumTokenStrings, active \in BOOLEAN :
          AdminSetTokenActive(tid, active)

SpecToken == Init /\ [][NextToken]_vars

\* The store once alice and bob have registered, logged in and each made a
\* first authenticated request.
InitBlog ==
    /\ users =
          {[id |-> 1, username |-> "alice", password |-> make_password("pw1"),
            is_active |-> TRUE],
           [id |-> 2, username |-> "bob", password |-> make_password("pw1"),
            is_active |-> TRUE]}
    /\ tokens =
          {[id |-> k, user |-> k, token |-> Token(k),
            expires_at |-> TOKEN_LIFETIME_DAYS, is_active |-> TRUE,
            last_used |-> 0] : k \in 1..2}
    /\ categories = {}
    /\ articles = {}
    /\ comments = {}
    /\ next_id = [article |-> 1, comment |-> 1]
    /\ now = 0
    /\ save_raises = FALSE
    /\ logins = [p \in 1..NumLogins |-> NoLogin]
    /\ requests = [p \in 1..NumRequests |-> NoRequest]
    /\ resp = NoResponse

Alice == <<Token(1)>>
Bob == <<Token(2)>>

\* Slugs: alice creates and retitles articles and creates categories whose
\* titles and names share a base slug, with and without an explicit slug.
NextSlug ==
    \/ \E title \in {Foo, FooBang}, slug \in Option({foo}) :
          /\ next_id.article <= MaxSlugArticles
          /\ create_article(Alice, <<>>, title, slug, "c1", <<>>, TRUE)
    \/ \E id \in 1..MaxSlugArticles :
          \E title \in Option({Foo, Bar}), slug \in Option({foo}) :
              update_article(Alice, <<>>, id, title, slug, <<>>, <<>>, <<>>)
    \/ \E name \in {Foo, FooBang}, slug \in Option({foo}) :
          /\ Cardinality(categories) < MaxCategories
          /\ create_category(Alice, <<>>, name, slug, <<>>)

SpecSlug == InitBlog /\ [][NextSlug]_vars

\* Ownership: alice and bob write, edit and delete articles and comments,
\* their own and each other's.
NextBlog ==
    \/ \E h \in {Alice, Bob} :
          /\ next_id.article <= MaxArticles
          /\ create_article(h, <<>>, Foo, <<>>, "c1", <<>>, TRUE)
    \/ \E h \in {Alice, Bob}, id \in 1..MaxArticles :
          \E title \in Option({Bar}), content \in Option({"c2"}) :
              update_article(h, <<>>, id, title, <<>>, content, <<>>, <<>>)
    \/ \E h \in {Alice, Bob}, id \in 1..MaxArticles : delete_article(h, id)
    \/ \E h \in {Alice, Bob}, id \in 1..MaxArticles :
          /\ next_id.comment <= MaxComments
          /\ create_comment(h, <<>>, id, "c1")
    \/ \E h \in {Alice, Bob}, id \in 1..MaxComments :
          update_comment(h, <<>>, id, "c2")
    \/ \E h \in {Alice, Bob}, id \in 1..MaxComments : delete_comment(h, id)

SpecBlog == InitBlog /\ [][NextBlog]_vars

\* Listings: alice and bob write articles, published or not, in a category
\* or in none, and anyone lists them with and without filters.
Far == <<"f", "a", "r">>
Dot == <<".">>
Searches == {<<>>, <<"O", "O">>, <<"a", "r">>}

NextList ==
    \/ create_category(Alice, <<>>, Foo, <<>>, <<>>)
    \/ \E h \in {Alice, Bob}, draft \in {<<Foo, Far>>, <<Bar, Dot>>} :
          \E category_id \in Option({1}), published \in BOOLEAN :
              /\ next_id.article <= MaxArticles
              /\ create_article(h, <<>>, draft[1], <<>>, draft[2], category_id,
                                published)
    \/ \E h \in {Alice, Bob}, id \in 1..MaxArticles :
          \E published \in Option(BOOLEAN) :
              update_article(h, <<>>, id, <<>>, <<>>, <<>>, <<>>, published)
    \/ \E h \in {<<>>, Alice}, search \in Option(Searches) :
          \E category_id \in Option({0, 1, 2}) :
              list_articles(h, search, category_id)
    \/ \E h \in {<<>>, Alice, Bob}, id \in 1..MaxArticles : get_article(h, id)

SpecList == InitBlog /\ [][NextList]_vars

\* Threads: alice and bob write articles and comment on them, edit and
\* delete both.
NextThread ==
    \/ \E h \in {Alice, Bob} :
          /\ next_id.article <= MaxArticles
          /\ create_article(h, <<>>, Foo, <<>>, "c1", <<>>, TRUE)
    \/ \E h \in {Alice, Bob}, id \in 1..MaxArticles :
          update_article(h, <<>>, id, <<>>, <<>>, <<"c2">>, <<>>, <<>>)
    \/ \E h \in {Alice, Bob}, id \in 1..MaxArticles : delete_article(h, id)
    \/ \E h \in {Alice, Bob}, id \in 1..MaxArticles :
          /\ next_id.comment <= MaxThreadComments
          /\ create_comment(h, <<>>, id, "c1")
    \/ \E id \in 1..MaxThreadComments : update_comment(Alice, <<>>, id, "c2")
    \/ \E h \in {Alice, Bob}, id \in 1..MaxThreadComments : delete_comment(h, id)

SpecThread == InitBlog /\ [][NextThread]_vars

\* Persistence faults: one account uses its token while the database at
\* times refuses to write last_used.
NextSave ==
    \/ register("alice", "pw1")
    \/ login("alice", "pw1", Token(1), Token(1))
    \/ \E h \in Headers : change_password(h, <<>>, "pw1", "pw1")
    \/ \E t \in Instants : Tick(t)
    \/ \E raises \in BOOLEAN : SaveFault(raises)

SpecSave == Init /\ [][NextSave]_vars

\* Passwords and tokens: one account logs in, changes its password with
\* either token, while time passes and the admin switches tokens off and on.
NextPassword ==
    \/ register("alice", "pw1")
    \/ \E p \in Passwords :
          \E first, token \in generate_token(IssuedLength) :
              login("alice", p, first, token)
    \/ \E h \in {<<s>> : s \in generate_token(TOKEN_LENGTH)} :
          \E old \in Passwords, new \in Passwords :
              change_password(h, <<>>, old, new)
    \/ \E t \in Instants : Tick(t)
    \/ \E tid \in 1..NumTokenStrings, active \in BOOLEAN :
          AdminSetTokenActive(tid, active)

SpecPassword == Init /\ [][NextPassword]_vars

\* Logins served at the same time: alice and bob log in, each request
\* advancing one statement at a time.
NextRace ==
    \/ \E u \in Usernames : register(u, "pw1")
    \/ \E p \in 1..NumLogins, u \in Usernames, pw \in Passwords :
          LoginStart(p, u, pw)
    \/ \E p \in 1..NumLogins, token \in generate_token(IssuedLength) :
          LoginGenerate(p, token)
    \/ \E p \in 1..NumLogins : LoginCheck(p)
    \/ \E p \in 1..NumLogins : LoginInsert(p)

SpecRace == Init /\ [][NextRace]_vars

\* Slugs over time: alice creates articles whose titles share a base slug,
\* retitles them, with and without a slug of her own, and deletes them.
NextReslug ==
    \/ \E title \in {Foo, FooBang} :
          /\ next_id.article <= MaxReslugArticles
          /\ create_article(Alice, <<>>, title, <<>>, "c1", <<>>, TRUE)
    \/ \E id \in 1..MaxReslugArticles :
          \E title \in Option({Foo, Bar}), slug \in Option({foo}) :
              update_article(Alice, <<>>, id, title, slug, <<>>, <<>>, <<>>)
    \/ \E id \in 1..MaxReslugArticles : delete_article(Alice, id)

SpecReslug == InitBlog /\ [][NextReslug]_vars

\* Creations served at the same time: alice creates articles and
\* categories whose titles and names share a base slug, each request
\* choosing its slug in one step and inserting its row in another.
NextCreateRace ==
    \/ \E p \in 1..NumRequests, h \in {<<>>, Alice} :
          \E title \in {Foo, FooBang}, slug \in Option({foo}) :
              /\ next_id.article <= MaxRaceRows
              /\ CreateArticleStart(p, h, title, slug)
    \/ \E p \in 1..NumRequests : CreateArticleInsert(p)
    \/ \E p \in 1..NumRequests, h \in {<<>>, Alice} :
          \E name \in {Foo, FooBang}, slug \in Option({foo}) :
              /\ Cardinality(categories) < MaxRaceRows
              /\ CreateCategoryStart(p, h, name, slug)
    \/ \E p \in 1..NumRequests : CreateCategoryInsert(p)

SpecCreateRace == InitBlog /\ [][NextCreateRace]_vars

\* Partial updates: alice and bob write articles, bob a comment, and they
\* update them with or without a title, with a slug of their own that is
\* null, empty or not.
SlugFields == {<<>>, <<<<>>>>, <<foo>>}

NextPartial ==
    \/ \E h \in {Alice, Bob} :
          /\ next_id.article <= MaxArticles
          /\ create_article(h, <<>>, Foo, <<>>, "c1", <<>>, TRUE)
    \/ \E h \in {Alice, Bob}, id \in 1..MaxArticles :
          \E title \in Option({Bar}), slug \in SlugFields :
              update_article(h, <<>>, id, title, slug, <<>>, <<>>, <<>>)
    \/ \E h \in {Alice, Bob}, id \in 1..MaxArticles : delete_article(h, id)
    \/ /\ next_id.comment <= MaxComments
       /\ create_comment(Bob, <<>>, 1, "c1")
    \/ \E h \in {Alice, Bob}, id \in 1..MaxComments :
          update_comment(h, <<>>, id, "c2")

SpecPartial == InitBlog /\ [][NextPartial]_vars

\* Refusals: alice, bob and callers without a token in the header write,
\* edit and delete articles and comments, stored or not.
Senders == {<<<<>>, <<>>>>, <<Alice, <<>>>>, <<Bob, <<>>>>, <<<<>>, Alice>>}

NextErrors ==
    \/ \E c \in Senders :
          /\ next_id.article <= MaxArticles
          /\ create_article(c[1], c[2], Foo, <<>>, "c1", <<>>, TRUE)
    \/ \E c \in Senders, id \in 1..MaxArticles :
          update_article(c[1], c[2], id, <<>>, <<>>, <<"c2">>, <<>>, <<>>)
    \/ \E c \in Senders, id \in 1..MaxArticles : delete_article(c[1], id)
    \/ \E c \in Senders, id \in 1..MaxArticles :
          /\ next_id.comment <= MaxComments
          /\ create_comment(c[1], c[2], id, "c1")
    \/ \E c \in Senders, id \in 1..MaxComments :
          update_comment(c[1], c[2], id, "c2")
    \/ \E c \in Senders, id \in 1..MaxComments : delete_comment(c[1], id)

SpecErrors == InitBlog /\ [][NextErrors]_vars

\* Updates served while other requests run: alice writes articles and
\* updates them, each update loading the article in one step and saving it
\* in another, while she and bob delete and read them.
NextLateSave ==
    \/ /\ next_id.article <= MaxArticles
       /\ create_article(Alice, <<>>, Foo, <<>>, "c1", <<>>, TRUE)
    \/ \E p \in 1..NumRequests, id \in 1..MaxArticles, title \in Option({Bar}) :
          UpdateArticleLoad(p, Alice, id, title, <<>>)
    \/ \E p \in 1..NumRequests : UpdateArticleSave(p)
    \/ \E h \in {Alice, Bob}, id \in 1..MaxArticles : delete_article(h, id)
    \/ \E id \in 1..MaxArticles : get_article(<<>>, id)

SpecLateSave == InitBlog /\ [][NextLateSave]_vars

\* Drafts: alice and bob write articles, published or not, and publish and
\* withdraw them, bob comments on them, and anyone reads without a token.
NextDrafts ==
    \/ \E h \in {Alice, Bob}, published \in BOOLEAN :
          /\ next_id.article <= MaxArticles
          /\ create_article(h, <<>>, Foo, <<>>, "c1", <<>>, published)
    \/ \E h \in {Alice, Bob}, id \in 1..MaxArticles, published \in BOOLEAN :
          update_article(h, <<>>, id, <<>>, <<>>, <<>>, <<>>, <<published>>)
    \/ \E id \in 1..MaxArticles :
          /\ next_id.comment <= MaxComments
          /\ create_comment(Bob, <<>>, id, "c1")
    \/ list_articles(<<>>, <<>>, <<>>)
    \/ \E id \in 1..MaxArticles : get_article(<<>>, id)
    \/ \E id \in 1..MaxArticles : list_comments(<<>>, id)

SpecDrafts == InitBlog /\ [][NextDrafts]_vars

\* The whole API for one account: every endpoint, with and without a
\* token that validates.
Callers == {<<<<>>, <<>>>>, <<Alice, <<>>>>, <<<<>>, Alice>>}

Next ==
    \/ register("alice", "pw1")
    \/ \E first, token \in generate_token(IssuedLength) :
          login("alice", "pw1", first, token)
    \/ \E c \in Callers : change_password(c[1], c[2], "pw1", "pw1")
    \/ \E c \in Callers :
          /\ next_id.article <= 1
          /\ create_article(c[1], c[2], Foo, <<>>, "c1", <<>>, TRUE)
    \/ \E c \in Callers :
          update_article(c[1], c[2], 1, <<>>, <<>>, <<"c2">>, <<>>, <<>>)
    \/ \E c \in Callers : delete_article(c[1], 1)
    \/ \E c \in Callers :
          /\ next_id.comment <= 1
          /\ create_comment(c[1], c[2], 1, "c1")
    \/ \E c \in Callers : update_comment(c[1], c[2], 1, "c2")
    \/ \E c \in Callers : delete_comment(c[1], 1)
    \/ \E c \in Callers :
          /\ Cardinality(categories) < 1
          /\ create_category(c[1], c[2], Foo, <<>>, <<>>)
    \/ \E c \in Callers : list_articles(c[1], <<>>, <<>>)
    \/ \E c \in Callers : get_article(c[1], 1)
    \/ \E c \in Callers : list_comments(c[1], 1)
    \/ \E c \in Callers : list_categories(c[1])
    \/ \E t \in Instants : Tick(t)
    \/ \E active \in BOOLEAN : AdminSetUserActive(1, active)
    \/ \E active \in BOOLEAN : AdminSetTokenActive(1, active)

Spec == Init /\ [][Next]_vars

----------------------------------------------------------------------------
(* Token validation *)

\* the token strings a request presented
Presented(cred) ==
    {cred[i][1] : i \in {j \in 1..2 : cred[j] # <<>>}}

\* the stored tokens that the string s names and that are in force:
\* the same string, active, and not past expires_at
InForce(s) ==
    {t \in tokens : t.token = s /\ t.is_active /\ now <= t.expires_at}

C1_Validation ==
    \A s \in PresentedTokens :
        LET user == get_user_from_token(s).user
        IN  /\ user # NoId => \E t \in InForce(s) : t.user = user
            /\ (s = <<>> \/ InForce(s) = {}) => user = NoId

C1_Request ==
    (resp'.op = "change_password" /\ resp'.user # NoId)
        => \E s \in Presented(resp'.cred) :
               \E t \in InForce(s) : t.user = resp'.user

\* C1: validation returns a user only for a stored token with exactly the
\* presented string that is active, not expired and owned by that user, and
\* None otherwise; no request acts as a user who does not own a token it
\* presented.
C1_TokenOwnerOnly == [](C1_Validation) /\ [][C1_Request]_vars

C1_Witness ==
    /\ resp.op = "change_password"
    /\ resp.user # NoId
    /\ \E t \in tokens : t.user # resp.user /\ t.token \in Presented(resp.cred)

C2_Validation ==
    \A t \in tokens :
        t.is_active =>
            LET r == get_user_from_token(t.token)
            IN  IF now > t.expires_at
                THEN r.user = NoId /\ r.tokens = tokens
                ELSE r.user = t.user

C2_Request ==
    \A t \in tokens :
        (/\ resp'.op = "change_password"
         /\ resp'.cred = <<<<t.token>>, <<>>>>
         /\ t.is_active)
            => IF now > t.expires_at
               THEN /\ resp'.status = 401
                    /\ resp'.user = NoId
                    /\ UNCHANGED <<users, tokens>>
                    /\ UNCHANGED blogVars
               ELSE resp'.user = t.user

\* C2: an active token with now > expires_at is rejected and the rejection
\* changes no stored field (last_used included); an active token with
\* now <= expires_at is accepted.
C2_ExpiredRejected == [](C2_Validation) /\ [][C2_Request]_vars

C2_Witness ==
    /\ resp.op = "change_password"
    /\ resp.status = 401
    /\ \E t \in tokens :
          /\ resp.cred = <<<<t.token>>, <<>>>>
          /\ t.is_active
          /\ now > t.expires_at
          /\ t.last_used # NoTime

----------------------------------------------------------------------------
(* Login and registration *)

CredentialsOk(username, password) ==
    \E u \in users :
        /\ u.username = username
        /\ u.is_active
        /\ u.password = make_password(password)

C3_Request ==
    resp'.op = "login" =>
        LET ok == CredentialsOk(resp'.data.username, resp'.data.password)
        IN  /\ resp'.status = 200 <=> ok
            /\ ok => Cardinality(tokens') = Cardinality(tokens) + 1
            /\ ~ok => resp'.status = 401 /\ tokens' = tokens

\* C3: login answers 200 with a token iff the username exists, the account
\* is active and the password matches; otherwise 401 and no token is
\* created.
C3_LoginIff == [][C3_Request]_vars

C3_Witness ==
    /\ resp.op = "login"
    /\ resp.status = 401
    /\ \E u \in users :
          /\ u.username = resp.data.username
          /\ u.password = make_password(resp.data.password)
          /\ ~u.is_active

\* C4: every stored token string has TOKEN_LENGTH characters and no two
\* stored token rows hold the same string.
C4_TokenLengthUnique ==
    /\ \A t \in tokens : Len(t.token) = TOKEN_LENGTH
    /\ \A t1, t2 \in tokens : t1.token = t2.token => t1 = t2

C4_Witness ==
    /\ Cardinality(tokens) >= 2
    /\ \E t \in tokens : ~t.is_active
    /\ \E t \in tokens : now > t.expires_at

C8_Unique ==
    \A u1, u2 \in users : u1.username = u2.username => u1 = u2

C8_Request ==
    resp'.op = "register" =>
        IF \E u \in users : u.username = resp'.data.username
        THEN resp'.status = 400 /\ users' = users
        ELSE /\ resp'.status = 200
             /\ \E u \in users' :
                   /\ u \notin users
                   /\ u.username = resp'.data.username
                   /\ check_password(resp'.data.password, u.password)
                   /\ users' = users \cup {u}

----------------------------------------------------------------------------
(* Ownership *)

C5_Request ==
    (resp'.op \in {"update_article", "delete_article"} /\ resp'.user # NoId)
        => \A a \in articles :
               (a.id = resp'.id /\ a.author # resp'.user)
                   => /\ resp'.status = 403
                      /\ a \in articles'
                      /\ {c \in comments' : c.article = a.id}
                             = {c \in comments : c.article = a.id}
                      /\ UNCHANGED <<articles, comments>>

\* C5: a PUT or DELETE on an article by an authenticated user who is not its
\* author answers 403 and leaves the article, all its fields and its
\* comments in storage as they were.
C5_ArticleOwnerOnly == [][C5_Request]_vars

C5_Witness ==
    /\ resp.op = "delete_article"
    /\ resp.status = 403
    /\ \E a \in articles :
          /\ a.id = resp.id
          /\ a.author # resp.user
          /\ \E c \in comments : c.article = a.id /\ c.author = resp.user

C6_Request ==
    resp'.op \in {"update_comment", "delete_comment"} =>
        \A c \in comments :
            /\ (resp'.user # NoId /\ c.id = resp'.id /\ c.author # resp'.user)
                   => resp'.status = 403 /\ c \in comments'
            /\ c \notin comments' => resp'.user = c.author

\* C6: a PUT or DELETE on a comment by an authenticated user who is not its
\* author, the author of the commented article included, answers 403 and
\* the comment stays with its content; through these endpoints only the
\* author changes or removes a comment.
C6_CommentOwnerOnly == [][C6_Request]_vars

C6_Witness ==
    /\ resp.op = "update_comment"
    /\ resp.status = 403
    /\ \E c \in comments, a \in articles :
          /\ c.id = resp.id
          /\ c.article = a.id
          /\ c.author # resp.user
          /\ a.author = resp.user

----------------------------------------------------------------------------
(* Which endpoints need a token *)

WriteEndpoints ==
    {"change_password", "create_article", "update_article", "delete_article",
     "create_comment", "update_comment", "delete_comment", "create_category"}

ReadEndpoints ==
    {"list_articles", "get_article", "list_comments", "list_categories"}

C7_Write ==
    (/\ resp'.op \in WriteEndpoints
     /\ \A s \in Presented(resp'.cred) : InForce(s) = {})
        => /\ resp'.status = 401
           /\ UNCHANGED <<users, tokens, articles, comments, categories>>

C7_Open ==
    /\ resp'.op \in ReadEndpoints => resp'.status \in {200, 404}
    /\ resp'.op = "register" => resp'.status \in {200, 400}
    /\ resp'.op = "login" =>
          (resp'.status = 200
              <=> CredentialsOk(resp'.data.username, resp'.data.password))

\* C7: a write endpoint called with no token that validates answers 401 and
\* leaves users, tokens, articles, comments and categories as they were;
\* the read endpoints, register and login answer without a token.
C7_WritesNeedToken == [][C7_Write /\ C7_Open]_vars

C7_Witness ==
    /\ resp.op = "delete_comment"
    /\ resp.status = 401
    /\ \E c \in comments : c.id = resp.id
    /\ \E t \in tokens :
          /\ resp.cred = <<<<t.token>>, <<>>>>
          /\ (~t.is_active \/ now > t.expires_at)

----------------------------------------------------------------------------
(* Slugs *)

Slugs(rows) == {r.slug : r \in rows}

\* foo, foo-1, foo-2, ...
Suffixed(base, i) == IF i = 0 THEN base ELSE base \o <<"-">> \o IntToStr(i)

\* how many of foo, foo-1, foo-2, ... the rows hold without a gap
FamilySize(base, rows) ==
    CHOOSE n \in 0..Cardinality(rows) :
        /\ \A i \in 0..(n - 1) : Suffixed(base, i) \in Slugs(rows)
        /\ Suffixed(base, n) \notin Slugs(rows)

\* the operation stored one new row, whose slug continues the family of base
StoresNext(base, rows, rowsAfter) ==
    /\ resp'.status = 200
    /\ \E row \in rowsAfter :
          /\ rowsAfter = rows \cup {row}
          /\ row \notin rows
          /\ row.id = resp'.id
          /\ row.slug = Suffixed(base, FamilySize(base, rows))
          /\ row.slug \notin Slugs(rows)

C9_Articles ==
    (resp'.op = "create_article" /\ resp'.user # NoId /\ resp'.data.slug = <<>>)
        => StoresNext(slugify(resp'.data.title[1]), articles, articles')

C9_Categories ==
    (resp'.op = "create_category" /\ resp'.user # NoId /\ resp'.data.slug = <<>>)
        => StoresNext(slugify(resp'.data.name[1]), categories, categories')

C9_CategoriesNewName ==
    (resp'.op = "create_category" /\ resp'.user # NoId /\ resp'.data.slug = <<>>)
        => IF \E c \in categories : c.name = resp'.data.name[1]
           THEN resp'.status = 500 /\ categories' = categories
           ELSE StoresNext(slugify(resp'.data.name[1]), categories, categories')

\* C9: an article created without a slug, when storage holds the article
\* slugs foo, foo-1, ..., foo-(n-1) for the base slug foo of its title, is
\* stored with foo-n (foo when n = 0), a slug no stored article has; the
\* same for a category and the category slugs, provided no stored category
\* has its name; a category whose name is stored is refused and nothing is
\* stored. Article slugs do not count for categories, nor the reverse.
C9_SlugSequence == [][C9_Articles /\ C9_CategoriesNewName]_vars

\* C9 as stated: the same, for every name of a category.
C9_AsStated == [][C9_Articles /\ C9_Categories]_vars

C9_Witness ==
    /\ resp.op = "create_category"
    /\ resp.status = 200
    /\ resp.data.slug = <<>>
    /\ {Suffixed(foo, i) : i \in 0..2} \subseteq Slugs(articles)
    /\ \E c \in categories : c.id = resp.id /\ c.slug = Suffixed(foo, 1)
    /\ \A c \in categories : c.name # foo

C10_Requested ==
    slugify(IF TruthyStr(resp'.data.slug) THEN resp'.data.slug[1]
            ELSE resp'.data.title[1])

C10_Create ==
    (/\ resp'.op = "create_article"
     /\ resp'.user # NoId
     /\ C10_Requested \in Slugs(articles))
        => /\ resp'.status = 200
           /\ \E row \in articles' \ articles :
                 /\ row.slug \notin Slugs(articles)
                 /\ \E i \in 1..(Cardinality(articles) + 1) :
                       row.slug = Suffixed(C10_Requested, i)

C10_Update ==
    \A a \in articles :
        (/\ resp'.op = "update_article"
         /\ resp'.id = a.id
         /\ resp'.user = a.author
         /\ resp'.data.title # <<>>
         /\ C10_Requested \in Slugs(articles \ {a}))
            => /\ resp'.status = 200
               /\ \E row \in articles' :
                     /\ row.id = a.id
                     /\ row.slug \notin Slugs(articles \ {a})
                     /\ \E i \in 1..(Cardinality(articles) + 1) :
                           row.slug = Suffixed(C10_Requested, i)

\* C10: when create_article or update_article would store a slug that
\* another article has, given explicitly or derived from the title, the
\* operation answers 200 and stores a suffixed slug that no other article
\* has.
C10_SuffixOnCollision == [][C10_Create /\ C10_Update]_vars

----------------------------------------------------------------------------
(* Listings *)

\* value holds text at some position, letters compared without case
HoldsText(value, text) ==
    \E i \in 0..(Len(value) - Len(text)) :
        \A j \in 1..Len(text) : lower(value[i + j]) = lower(text[j])

MatchesSearch(a, search) ==
    search # <<>> => HoldsText(a.title, search[1]) \/ HoldsText(a.content, search[1])

\* a category_id was given and the article is in that category
MatchesCategory(a, category_id) ==
    category_id # <<>> => a.category # NoId /\ a.category = category_id[1]

C11_Hidden ==
    /\ resp'.op = "list_articles" =>
          \A a \in articles : ~a.published => a.id \notin resp'.data.result
    /\ resp'.op = "get_article" =>
          \A a \in articles :
              (a.id = resp'.id /\ ~a.published) => resp'.status = 404

C11_Exact ==
    resp'.op = "list_articles" =>
        resp'.data.result =
            {a.id : a \in {b \in articles :
                /\ b.published
                /\ MatchesSearch(b, resp'.data.search)
                /\ MatchesCategory(b, resp'.data.category_id)}}

C11_ExactZeroNotGiven ==
    resp'.op = "list_articles" =>
        resp'.data.result =
            {a.id : a \in {b \in articles :
                /\ b.published
                /\ MatchesSearch(b, resp'.data.search)
                /\ MatchesCategory(b, IF resp'.data.category_id = <<0>> THEN <<>>
                                      ELSE resp'.data.category_id)}}

C11_Flip ==
    \A a \in articles, b \in articles' :
        a.id = b.id =>
            (a.published # b.published
                <=> /\ resp'.op = "update_article"
                    /\ resp'.status = 200
                    /\ resp'.id = a.id
                    /\ resp'.user = a.author
                    /\ resp'.data.published = <<~a.published>>)

\* C11: an unpublished article is in no result of GET /articles and GET
\* /articles/{id} answers 404 for it, whoever asks; GET /articles returns
\* exactly the published articles that hold the search text in title or
\* content, letters compared without case, and are in the category given,
\* a category_id of 0 counting as not given; a stored article's published
\* flag changes exactly on its author's successful update that sets it.
C11_Listing == [][C11_Hidden /\ C11_ExactZeroNotGiven /\ C11_Flip]_vars

\* C11 as stated: the same, for every category_id given.
C11_AsStated == [][C11_Hidden /\ C11_Exact /\ C11_Flip]_vars

C11_Witness ==
    /\ resp.op = "list_articles"
    /\ resp.data.search = <<<<"O", "O">>>>
    /\ resp.data.category_id = <<1>>
    /\ resp.data.result # {}
    /\ resp.cred = <<Alice, <<>>>>
    /\ \E a \in articles, t \in tokens :
          /\ ~a.published /\ a.title = Foo /\ a.category = 1
          /\ <<t.token>> = Alice /\ a.author = t.user

----------------------------------------------------------------------------
(* Deleting an article *)

C12_NoOrphan == \A c \in comments : \E a \in articles : a.id = c.article

C12_Delete ==
    (resp'.op = "delete_article" /\ resp'.status = 200)
        => /\ \E a \in articles : a.id = resp'.id /\ articles' = articles \ {a}
           /\ comments' = {c \in comments : c.article # resp'.id}

\* C12: every stored comment refers to a stored article; a successful
\* DELETE of an article removes that article and the comments attached to
\* it, whoever wrote them, and no other article or comment.
C12_Cascade == [](C12_NoOrphan) /\ [][C12_Delete]_vars

C12_Witness ==
    /\ resp.op = "delete_article"
    /\ resp.status = 200
    /\ Cardinality(articles) = 1
    /\ next_id.comment = MaxThreadComments + 1
    /\ \E c \in comments : c.id = 1 /\ c.author # resp.user /\ c.content = "c1"

----------------------------------------------------------------------------
(* Writing last_used *)

C13_Request ==
    \A t \in tokens :
        (/\ resp'.op = "change_password"
         /\ resp'.cred = <<<<t.token>>, <<>>>>
         /\ t.is_active
         /\ now <= t.expires_at)
            => /\ resp'.user = t.user
               /\ resp'.status # 401
               /\ ~save_raises =>
                     \E u \in tokens' : u = [t EXCEPT !.last_used = now]

\* C13: a request with a token that is stored, active and not expired acts
\* as the token's user and is not refused, whether or not last_used can be
\* written; when it can, last_used becomes now.
C13_BestEffort == [][C13_Request]_vars

----------------------------------------------------------------------------
(* Header and body tokens *)

\* the owners of the stored tokens in force that the optional string names
Owners(field) ==
    IF field = <<>> THEN {} ELSE {t.user : t \in InForce(field[1])}

C14_Request ==
    resp'.op = "change_password" =>
        LET header == Owners(resp'.cred[1])
            body == Owners(resp'.cred[2])
        IN  /\ header # {} => resp'.user \in header
            /\ (header = {} /\ body # {}) => resp'.user \in body
            /\ (header = {} /\ body = {}) => resp'.status = 401

\* C14: a POST acts as the owner of the token in its Authorization header
\* when that token is valid, whatever the body holds; otherwise, with or
\* without an Authorization header, as the owner of the valid token in its
\* body; and is refused when neither is valid.
C14_HeaderThenBody == [][C14_Request]_vars

----------------------------------------------------------------------------
(* Changing the password *)

\* login with these credentials is accepted in the user table us
LogsIn(us, username, password) ==
    \E u \in us :
        /\ u.username = username
        /\ u.is_active
        /\ u.password = make_password(password)

\* the token table differs from before in last_used at most
OnlyLastUsed ==
    /\ {[t EXCEPT !.last_used = NoTime] : t \in tokens'}
           = {[t EXCEPT !.last_used = NoTime] : t \in tokens}
    /\ Cardinality(tokens') = Cardinality(tokens)

C15_Wrong(frame) ==
    \A u \in users :
        (/\ resp'.op = "change_password"
         /\ resp'.user = u.id
         /\ u.password # make_password(resp'.data.old_password))
            => /\ resp'.status = 401
               /\ users' = users
               /\ frame
               /\ UNCHANGED <<now, save_raises, logins>>
               /\ UNCHANGED blogVars

C15_Right(active) ==
    \A u \in users :
        (/\ resp'.op = "change_password"
         /\ resp'.user = u.id
         /\ u.password = make_password(resp'.data.old_password))
            => LET old == resp'.data.old_password
                   new == resp'.data.new_password
               IN  /\ resp'.status = 200
                   /\ users' = (users \ {u}) \cup
                          {[u EXCEPT !.password = make_password(new)]}
                   /\ (active \/ u.is_active) => LogsIn(users', u.username, new)
                   /\ old # new => ~LogsIn(users', u.username, old)

\* C15: change_password by an authenticated user with a wrong old password
\* answers 401 and leaves the users, the blog rows and, last_used apart,
\* the tokens as they were; with the right old password it stores the new
\* one, so that an active account logs in with the new password and no
\* longer with the old one when they differ.
C15_ChangePassword == [][C15_Wrong(OnlyLastUsed) /\ C15_Right(FALSE)]_vars

\* C15 as stated: nothing but the password ever changes, and the new
\* password logs in whatever the account's state.
C15_AsStated == [][C15_Wrong(tokens' = tokens) /\ C15_Right(TRUE)]_vars

C15_Witness ==
    /\ resp.op = "change_password"
    /\ resp.status = 401
    /\ resp.user # NoId
    /\ \E u \in users :
          /\ u.id = resp.user
          /\ u.password = make_password(resp.data.new_password)
          /\ u.password # make_password(resp.data.old_password)
    /\ \E u \in users : u.id # resp.user /\ ~u.is_active

----------------------------------------------------------------------------
(* Tokens across a password change *)

\* the token row t is in force in the token table ts at the instant time
Valid(ts, t, time) ==
    \E u \in ts :
        /\ u.id = t.id /\ u.token = t.token /\ u.user = t.user
        /\ u.is_active
        /\ time <= u.expires_at

C16_Validates ==
    \A t \in tokens :
        Valid(tokens, t, now) => get_user_from_token(t.token).user = t.user

C16_Change ==
    (resp'.op = "change_password" /\ resp'.status = 200)
        => \A t \in tokens :
               (t.user = resp'.user /\ Valid(tokens, t, now))
                   => Valid(tokens', t, now')

C16_Until ==
    \A t \in tokens :
        (Valid(tokens, t, now) /\ ~Valid(tokens', t, now'))
            => \/ now' > t.expires_at
               \/ /\ resp'.op = "admin"
                  /\ \E u \in tokens' : u.id = t.id /\ ~u.is_active

\* C16: every token of a user that was in force before the user's
\* successful change_password is in force after it, the token used
\* included; a token in force validates, and stops being in force only
\* when the clock passes expires_at or the admin deactivates it.
C16_TokensSurvive ==
    [](C16_Validates) /\ [][C16_Change /\ C16_Until]_vars

C16_Witness ==
    /\ resp.op = "change_password"
    /\ resp.status = 200
    /\ resp.data.old_password # resp.data.new_password
    /\ \E t1, t2 \in tokens :
          /\ t1.id # t2.id
          /\ t1.user = resp.user /\ t2.user = resp.user
          /\ Valid(tokens, t1, now) /\ Valid(tokens, t2, now)
          /\ resp.cred = <<<<t1.token>>, <<>>>>

----------------------------------------------------------------------------
(* What a refused login tells *)

C17_Request ==
    \A username \in Usernames, password \in Passwords :
        (/\ resp'.op = "login"
         /\ resp'.status # 200
         /\ ~LogsIn(users, username, password))
            => /\ resp'.status = 401
               /\ resp'.data.error = LoginError(username, password)

\* C17: a refused login gets the status and the body that any other login
\* refused in the same state would get, be the cause an unknown username,
\* an inactive account or a wrong password.
C17_SameRefusal == [][C17_Request]_vars

----------------------------------------------------------------------------
(* What touches the token table *)

\* the steps that serve a request of the API
ApiStep == resp'.op \notin {"none", "admin"}

C18_Kept ==
    ApiStep =>
        \A t \in tokens :
            \/ t \in tokens'
            \/ /\ [t EXCEPT !.last_used = now] \in tokens'
               /\ resp'.user = t.user
               /\ t.token \in Presented(resp'.cred)
               /\ Valid(tokens, t, now)

C18_Created ==
    ApiStep =>
        LET new == {u \in tokens' : \A t \in tokens : t.id # u.id}
        IN  IF resp'.op = "login" /\ resp'.status = 200
            THEN /\ tokens \subseteq tokens'
                 /\ \E u \in new :
                       /\ new = {u}
                       /\ u.user = resp'.user
                       /\ \E w \in users :
                             w.id = u.user /\ w.username = resp'.data.username
                       /\ u.is_active
                       /\ u.expires_at = now + TOKEN_LIFETIME_DAYS
                       /\ u.last_used = NoTime
            ELSE new = {}

C18_Count == ApiStep => Cardinality(tokens') >= Cardinality(tokens)

\* C18: a request of the API leaves every token row as it was, except that
\* the valid token it was authenticated with gets last_used = now; only a
\* successful login adds a row, exactly one, owned by the user logging in,
\* active, expiring a lifetime from now, with last_used empty; no request
\* removes a row.
C18_TokenFrame == [][C18_Kept /\ C18_Created /\ C18_Count]_vars

C18_Witness ==
    /\ resp.op = "login"
    /\ resp.status = 200
    /\ \E t, u \in tokens :
          /\ u.id = resp.id /\ t.id # u.id
          /\ t.user = u.user
          /\ t.last_used # NoTime
          /\ u.last_used = NoTime
          /\ Valid(tokens, t, now)
    /\ articles # {}

----------------------------------------------------------------------------
(* Logins served at the same time *)

C19_Unique == \A t, u \in tokens : t.token = u.token => t = u

C19_Insert ==
    \A p \in 1..NumLogins :
        (/\ logins[p].pc = "insert"
         /\ logins'[p].pc = "idle"
         /\ \E t \in tokens : t.token = logins[p].token)
            => resp'.status = 500 /\ tokens' = tokens

\* C19: two logins may both pass the absence check with the same candidate
\* string; the insert of a string that is stored by then fails and stores
\* nothing, so of the two at most one inserts, and no two stored token rows
\* ever hold the same string.
C19_RaceBackstop == [](C19_Unique) /\ [][C19_Insert]_vars

C19_Witness ==
    /\ resp.op = "login"
    /\ resp.status = 200
    /\ \E p \in 1..NumLogins, t \in tokens :
          /\ logins[p].pc = "insert"
          /\ logins[p].token = t.token
          /\ t.id = resp.id

----------------------------------------------------------------------------
(* Retired tokens *)

C20_InactiveRejected ==
    \A t \in tokens :
        ~t.is_active =>
            /\ get_user_from_token(t.token) = [user |-> NoId, tokens |-> tokens]
            /\ Authenticate("POST", <<t.token>>, <<t.token>>).user = NoId

\* a step of the API, or of the clock
C20_Retired ==
    (resp'.op # "admin" /\ now' >= now) =>
        \A t \in tokens :
            InForce(t.token) = {} =>
                /\ \A u \in tokens' :
                      u.token = t.token => ~u.is_active \/ now' > u.expires_at
                /\ (resp'.op \in WriteEndpoints /\ Presented(resp'.cred) = {t.token})
                      => resp'.status = 401

\* C20: validation rejects an inactive token, expired or not; and a stored
\* token string that is expired or inactive is still so after any request
\* of the API and any advance of the clock, and a request presenting it
\* alone is refused.
C20_RetiredForGood == [](C20_InactiveRejected) /\ [][C20_Retired]_vars

C20_Witness ==
    /\ resp.op = "change_password"
    /\ resp.status = 401
    /\ \E t \in tokens :
          /\ resp.cred = <<<<t.token>>, <<>>>>
          /\ ~t.is_active
          /\ now <= t.expires_at
          /\ t.last_used # NoTime
    /\ Cardinality(tokens) >= 2

----------------------------------------------------------------------------
(* Slugs of rows that are updated *)

\* the slugs of the rows other than instance
OtherSlugs(rows, instance) == Slugs({r \in rows : r.id # instance})

\* slug is the first of base, base-1, base-2, ... that no other row has
FirstFree(slug, base, others) ==
    \E k \in 0..Cardinality(others) :
        /\ slug = Suffixed(base, k)
        /\ slug \notin others
        /\ \A j \in 0..(k - 1) : Suffixed(base, j) \in others

C21_Function ==
    \A text \in {Foo, FooBang, Bar}, instance \in {NoId} \cup {a.id : a \in articles} :
        FirstFree(generate_slug(text, articles, instance), slugify(text),
                  OtherSlugs(articles, instance))

\* the text update_article makes the slug from
SlugText(data) == IF TruthyStr(data.slug) THEN data.slug[1] ELSE data.title[1]

C21_Update ==
    (resp'.op = "update_article" /\ resp'.status = 200 /\ resp'.data.title # <<>>)
        => \E old \in articles, new \in articles' :
              /\ old.id = resp'.id
              /\ new.id = resp'.id
              /\ FirstFree(new.slug, slugify(SlugText(resp'.data)),
                           OtherSlugs(articles, old.id))
              /\ (/\ resp'.data.title = <<old.title>>
                  /\ ~TruthyStr(resp'.data.slug)
                  /\ old.slug = slugify(old.title)) => new.slug = old.slug

C21_Repeat ==
    (/\ resp.op = "update_article" /\ resp.status = 200
     /\ resp'.op = "update_article" /\ resp'.id = resp.id
     /\ resp'.data = resp.data /\ resp'.cred = resp.cred)
        => /\ resp'.status = 200
           /\ \A old \in articles, new \in articles' :
                 (old.id = resp.id /\ new.id = resp.id) => new.slug = old.slug

\* C21: over the stored articles, generate_slug(text, Article, instance)
\* returns the base slug of text if no article other than instance has it,
\* and otherwise base-k for the smallest k >= 1 such that no article other
\* than instance has base-k; k is at most the number of other articles. An
\* update that supplies a title stores such a slug; one that supplies the
\* title the article has, for an article whose slug is the base slug of
\* that title, keeps the slug; and an update sent again right after it
\* succeeded succeeds and leaves the slug as it is.
C21_SlugOfInstance == [](C21_Function) /\ [][C21_Update /\ C21_Repeat]_vars

C21_Witness ==
    /\ resp.op = "update_article"
    /\ resp.status = 200
    /\ resp.data.title = <<Foo>>
    /\ resp.data.slug = <<>>
    /\ resp.id = MaxReslugArticles
    /\ Cardinality(articles) = 2
    /\ \E a, b \in articles :
          /\ a.id = resp.id /\ a.title = Foo /\ a.slug = Suffixed(foo, 1)
          /\ b.id = 1 /\ b.slug = foo

----------------------------------------------------------------------------
(* Creations served at the same time *)

C22_Unique ==
    /\ \A a, b \in articles : a.slug = b.slug => a = b
    /\ \A c, d \in categories : c.slug = d.slug => c = d

\* the request about to insert, and the rows that hold its slug
C22_Insert ==
    \A p \in 1..NumRequests :
        (/\ requests[p].pc = "insert"
         /\ requests'[p].pc = "idle"
         /\ \E r \in articles \cup categories :
               /\ r.slug = requests[p].row.slug
               /\ (requests[p].op = "create_article") = (r \in articles))
            => /\ resp'.op = requests[p].op
               /\ resp'.status = 500
               /\ articles' = articles
               /\ categories' = categories

\* C22: two create_article requests, or two create_category requests, may
\* both choose the same slug before either inserts its row; the insert
\* that comes second is refused by the store and changes nothing, so no
\* two articles and no two categories ever have the same slug.
C22_StoreRejects == [](C22_Unique) /\ [][C22_Insert]_vars

C22_Witness ==
    /\ resp.op = "create_article"
    /\ resp.status = 500
    /\ resp.data.slug = <<>>
    /\ resp.data.title = <<Foo>>
    /\ \E a \in articles : a.title = Foo /\ a.slug = foo
    /\ Cardinality(articles) = 1

----------------------------------------------------------------------------
(* Partial updates *)

\* the value of a field after an update: the one sent, or the stored one
Kept(field, stored) == IF field = <<>> THEN stored ELSE field[1]

\* old is the stored article and new the article an update answered 200
\* leaves, its slug made from text when a title is sent
Updated(old, new, data, text) ==
    /\ new.id = old.id
    /\ new.author = old.author
    /\ new.title = Kept(data.title, old.title)
    /\ new.content = Kept(data.content, old.content)
    /\ new.category = Kept(data.category_id, old.category)
    /\ new.published = Kept(data.published, old.published)
    /\ IF data.title = <<>> THEN new.slug = old.slug
       ELSE FirstFree(new.slug, slugify(text), OtherSlugs(articles, old.id))

C23_Update(present) ==
    (resp'.op = "update_article" /\ resp'.status = 200)
        => \E old \in articles, new \in articles' :
              /\ old.id = resp'.id
              /\ old.author = resp'.user
              /\ articles' = (articles \ {old}) \cup {new}
              /\ Updated(old, new, resp'.data,
                         IF present THEN resp'.data.slug[1]
                         ELSE resp'.data.title[1])

C23_NoTransfer ==
    ApiStep =>
        /\ \A a \in articles, b \in articles' :
              a.id = b.id => a.author = b.author
        /\ \A c \in comments, d \in comments' :
              c.id = d.id => c.author = d.author /\ c.article = d.article

\* C23: update_article answered 200 changes the caller's own article and no
\* other; each of title, content, category and published keeps its stored
\* value when the request leaves it null and takes the sent value
\* otherwise; the slug is left as it is when no title is sent, also when a
\* slug is sent, and is otherwise made from the sent slug when that is a
\* non-empty string and from the sent title when the slug is null or
\* empty. No operation of the API changes the author of a stored article
\* or comment, or the article of a comment.
C23_PartialUpdate ==
    [][C23_Update(resp'.data.slug # <<>> /\ resp'.data.slug[1] # <<>>)
           /\ C23_NoTransfer]_vars

\* C23 as stated: the slug is made from the sent slug whenever one is sent.
C23_AsStated == [][C23_Update(resp'.data.slug # <<>>) /\ C23_NoTransfer]_vars

C23_Witness ==
    /\ resp.op = "update_article"
    /\ resp.status = 200
    /\ resp.data.title = <<Bar>>
    /\ resp.data.slug = <<<<>>>>
    /\ resp.data.content = <<>>
    /\ \E a, b \in articles :
          /\ a.id = resp.id /\ a.slug = Suffixed(slugify(Bar), 1)
          /\ a.content = "c1" /\ a.author = 2
          /\ b.slug = slugify(Bar) /\ b.author = 1

----------------------------------------------------------------------------
(* Refusals *)

OnArticle == {"update_article", "delete_article", "create_comment"}

OnComment == {"update_comment", "delete_comment"}

\* the authors of the stored row a request addresses: none when no row has
\* the id
TargetAuthors(r) ==
    IF r.op = "create_comment"
    THEN {a.author : a \in ArticleById(r.data.article_id)}
    ELSE IF r.op \in OnArticle THEN {a.author : a \in ArticleById(r.id)}
    ELSE {c.author : c \in CommentById(r.id)}

C24_Request ==
    resp'.op \in OnArticle \cup OnComment =>
        LET target == TargetAuthors(resp')
            owners == Owners(resp'.cred[1]) \cup Owners(resp'.cred[2])
        IN  /\ owners = {} => resp'.status = 401
            /\ resp'.status = 401 <=> resp'.user = NoId
            /\ (resp'.user # NoId /\ target = {}) => resp'.status = 404
            /\ resp'.status = 404 => target = {}
            /\ resp'.status = 403 <=>
                  /\ resp'.op # "create_comment"
                  /\ resp'.user # NoId
                  /\ target # {}
                  /\ resp'.user \notin target
            /\ resp'.status \in {401, 403, 404} =>
                  UNCHANGED <<articles, comments, next_id>>

\* C24: for update_article, delete_article, create_comment, update_comment
\* and delete_comment, a request with no token in force is answered 401,
\* whether the row it addresses is stored or not, and 401 is the answer of
\* exactly the requests that are not authenticated; an authenticated
\* request that addresses no stored row is answered 404; 403 is the answer
\* of exactly the authenticated updates and deletes of a stored row whose
\* author is another user; and a request answered 401, 403 or 404 leaves
\* every article and comment as it was.
C24_Precedence == [][C24_Request]_vars

C24_Witness ==
    /\ resp.op = "create_comment"
    /\ resp.status = 404
    /\ resp.user = 2
    /\ ArticleById(resp.data.article_id) = {}
    /\ articles # {}
    /\ \A c \in comments : c.author # 2

----------------------------------------------------------------------------
(* Deleted articles *)

\* the ids of the articles that were stored and have been deleted
Deleted == {id \in 1..(next_id.article - 1) : ArticleById(id) = {}}

C25_Absent == \A a \in articles' : a.id \notin Deleted

C25_NotFound ==
    (/\ resp'.op \in {"get_article", "update_article", "delete_article"}
     /\ resp'.id \in Deleted
     /\ resp'.op \in Protected => resp'.user # NoId)
        => resp'.status = 404

\* C25: an article that was deleted is never stored again, whatever
\* requests were in progress when it was deleted and whenever they save,
\* and GET, and authenticated PUT and DELETE, on its id are answered 404.
C25_StaysDeleted == [][C25_Absent /\ C25_NotFound]_vars

----------------------------------------------------------------------------
(* Tokens of deactivated accounts *)

Inactive == {u.id : u \in {v \in users : ~v.is_active}}

C26_Write ==
    (resp'.op \in Protected /\ resp'.cred[1] # <<>>) =>
        LET owners == Owners(resp'.cred[1])
        IN  /\ owners # {} => resp'.user \in owners /\ resp'.status # 401
            /\ (owners = {} /\ resp'.cred[2] = <<>>) => resp'.status = 401

C26_Login ==
    (/\ resp'.op = "login"
     /\ \E u \in users : u.username = resp'.data.username /\ u.id \in Inactive)
        => resp'.status = 401 /\ tokens' = tokens

\* C26: a request to an endpoint that needs a token, with a token in its
\* Authorization header that is stored, active and not expired, acts as
\* the owner of the token and is not answered 401, whether or not the
\* owner's account is active; once the token is expired or deactivated the
\* request is answered 401; and a login for an account that is not active
\* is answered 401 and issues no token.
C26_TokenOutlivesAccount == [][C26_Write /\ C26_Login]_vars

C26_Witness ==
    /\ resp.op = "create_article"
    /\ resp.status = 200
    /\ resp.user \in Inactive
    /\ \E a \in articles : a.id = resp.id /\ a.author \in Inactive

----------------------------------------------------------------------------
(* Unpublished articles *)

Unpublished == {a.id : a \in {b \in articles : ~b.published}}

C27_ById ==
    (resp'.op \in {"get_article", "list_comments"} /\ resp'.id \in Unpublished)
        => resp'.status = 404

C27_Listed ==
    resp'.op = "list_articles" => resp'.data.result \cap Unpublished = {}

\* C27: the endpoints that read without a token do not show an article
\* that is not published: GET /articles/{id} and GET
\* /articles/{id}/comments on its id are answered 404, and GET /articles
\* does not list it.
C27_DraftsHidden == [][C27_ById /\ C27_Listed]_vars

====
